---- MODULE Spec2Model ----
(***************************************************************************)
(* CKY parser over a probabilistic context-free grammar (cky.py,           *)
(* grammar.py).  The state is the grammar object a CkyParser holds (its    *)
(* two defaultdict indices and the start symbol) together with what the    *)
(* last call produced: the chart, the probability table and the return     *)
(* value.  Python dicts keep insertion order and the parser iterates over  *)
(* them, so a chart cell is a sequence of <<key, value>> pairs.            *)
(***************************************************************************)
EXTENDS Integers, Sequences, FiniteSets, TLC

VARIABLES rhs_to_rules, lhs_to_rules, startsymbol,
          call, tokens, result, table, probs, cands, root, tree

vars == <<rhs_to_rules, lhs_to_rules, startsymbol,
          call, tokens, result, table, probs, cands, root, tree>>

(***************************************************************************)
(* Bounds and input alphabets.                                             *)
(***************************************************************************)
MaxLen == 3

Terminals == {"a", "b"}

Nonterminals == {"S", "A"}

\* -math.inf, the value of the dummy entry and of a first-seen left-hand side
NegInf == -1000

\* Rule triples (lhs, rhs, prob) as parse_rule returns them; prob is the
\* float written in the grammar file, kept as numerator/denominator.
Rule(l, r, p) == [lhs |-> l, rhs |-> r, prob |-> p]

\* The rule lines grammar files are written from.
RuleList ==
  << Rule("S", <<"a">>,      <<1, 2>>),
     Rule("S", <<"a">>,      <<1, 4>>),
     Rule("A", <<"a">>,      <<1, 2>>),
     Rule("S", <<"b">>,      <<1, 1>>),
     Rule("A", <<"b">>,      <<2, 1>>),
     Rule("S", <<"S", "S">>, <<1, 2>>),
     Rule("S", <<"A", "S">>, <<1, 1>>) >>

(***************************************************************************)
(* Python dict with insertion order: a sequence of <<key, value>> pairs.   *)
(***************************************************************************)
Keys(d) == [x \in 1..Len(d) |-> d[x][1]]

Has(d, k) == \E x \in 1..Len(d) : d[x][1] = k

Get(d, k) == d[CHOOSE x \in 1..Len(d) : d[x][1] = k][2]

Put(d, k, v) ==
  IF Has(d, k)
  THEN [x \in 1..Len(d) |-> IF d[x][1] = k THEN <<k, v>> ELSE d[x]]
  ELSE Append(d, <<k, v>>)

PopKey(e, k) == e[1] # k

PopNothing(d, k) == d

\* dict.pop(key)
Pop(d, k) == SelectSeq(d, LAMBDA e : PopKey(e, k))

\* dict[key] = value on a dict of dicts keyed by span
SetCell(t, span, cell) ==
  IF span \in DOMAIN t THEN [t EXCEPT ![span] = cell] ELSE t @@ (span :> cell)

(***************************************************************************)
(* math.log(prob, 2) on the probabilities of the pool (powers of two).     *)
(***************************************************************************)
RECURSIVE ILog2(_)
ILog2(x) == IF x <= 1 THEN 0 ELSE 1 + ILog2(x \div 2)

Log2(p) == ILog2(p[1]) - ILog2(p[2])

(***************************************************************************)
(* grammar.py: Pcfg.__init__ and read_rules.  A grammar file is a sequence *)
(* of lines, each a rule line or a start-symbol line.                      *)
(***************************************************************************)
RuleLine(r) == [kind |-> "rule", rule |-> r]

StartLine(s) == [kind |-> "start", sym |-> s]

\* defaultdict(list): d[key].append(rule)
AppendTo(d, key, rule) ==
  IF key \in DOMAIN d THEN [d EXCEPT ![key] = Append(@, rule)]
  ELSE d @@ (key :> <<rule>>)

EmptyDict == [x \in {} |-> <<>>]

RECURSIVE read_rules(_, _, _)
read_rules(g, grammar_file, x) ==
  IF x > Len(grammar_file) THEN g
  ELSE LET line == grammar_file[x] IN
       IF line.kind = "rule"
       THEN read_rules([g EXCEPT !.rhs = AppendTo(@, line.rule.rhs, line.rule),
                                 !.lhs = AppendTo(@, line.rule.lhs, line.rule)],
                       grammar_file, x + 1)
       ELSE read_rules([g EXCEPT !.start = line.sym], grammar_file, x + 1)

PcfgInit(grammar_file) ==
  read_rules([rhs |-> EmptyDict, lhs |-> EmptyDict, start |-> "None"],
             grammar_file, 1)

\* self.grammar.rhs_to_rules[key]: a defaultdict lookup inserts a missing key
Touch(rhs, key) == IF key \in DOMAIN rhs THEN rhs ELSE rhs @@ (key :> <<>>)

RulesFor(rhs, key) == Touch(rhs, key)[key]

(***************************************************************************)
(* Chart markers: a str (leaf token, or the dummy "") or a pair of         *)
(* backpointer triples.                                                    *)
(***************************************************************************)
StrMarker(s) == <<"str", s>>

\* table[(i, i+1)][rule[0]] = tokens[i]
LeafMarker(toks, i) == StrMarker(toks[i + 1])

NewKeyWholeSpan(rule, i, k, j) == <<"tuple", <<rule.rhs[1], i, k>>, <<rule.rhs[2], i, j>>>>

\* ((rule[1][0], i, k), (rule[1][1], k, j))
NewKey(rule, i, k, j) == <<"tuple", <<rule.rhs[1], i, k>>, <<rule.rhs[2], k, j>>>>

LKeysFirstLeaf(t, i, k) == Keys(t[<<i, i + 1>>])

\* l_keys = [key for (key, val) in table[(i, k)].items()]
LKeys(t, i, k) == Keys(t[<<i, k>>])

\* r_keys = [key for (key, val) in table[(k, j)].items()]
RKeys(t, k, j) == Keys(t[<<k, j>>])

LeafSpans(n) == {<<i, i + 1>> : i \in 0..(n - 1)}

(***************************************************************************)
(* cky.py: CkyParser.is_in_language.  The loops are unrolled as recursive  *)
(* operators over a record st = [table, rhs].                              *)
(***************************************************************************)
RECURSIVE IL_LeafRules(_, _, _, _, _)
IL_LeafRules(st, toks, i, rules, x) ==
  IF x > Len(rules) THEN st
  ELSE IL_LeafRules(
         [st EXCEPT !.table = SetCell(@, <<i, i + 1>>,
                       Put(st.table[<<i, i + 1>>], rules[x].lhs, LeafMarker(toks, i)))],
         toks, i, rules, x + 1)

RECURSIVE IL_Leaves(_, _, _)
IL_Leaves(st, toks, i) ==
  IF i >= Len(toks) THEN st
  ELSE LET key == <<toks[i + 1]>>
           st1 == [st EXCEPT !.rhs = Touch(@, key)]
       IN IL_Leaves(IL_LeafRules(st1, toks, i, st1.rhs[key], 1), toks, i + 1)

RECURSIVE IL_Rules(_, _, _, _, _, _)
IL_Rules(st, i, j, k, rules, x) ==
  IF x > Len(rules) THEN st
  ELSE IL_Rules(
         [st EXCEPT !.table = SetCell(@, <<i, j>>,
                       Put(st.table[<<i, j>>], rules[x].lhs, NewKey(rules[x], i, k, j)))],
         i, j, k, rules, x + 1)

RECURSIVE IL_Pairs(_, _, _, _, _, _, _, _)
IL_Pairs(st, i, j, k, l_keys, r_keys, a, b) ==
  IF a > Len(l_keys) THEN st
  ELSE IF b > Len(r_keys) THEN IL_Pairs(st, i, j, k, l_keys, r_keys, a + 1, 1)
  ELSE LET key == <<l_keys[a], r_keys[b]>>
           st1 == [st EXCEPT !.rhs = Touch(@, key)]
       IN IL_Pairs(IL_Rules(st1, i, j, k, st1.rhs[key], 1),
                   i, j, k, l_keys, r_keys, a, b + 1)

RECURSIVE IL_Splits(_, _, _, _)
IL_Splits(st, i, j, k) ==
  IF k >= j THEN st
  ELSE LET l_keys == LKeys(st.table, i, k)
           r_keys == RKeys(st.table, k, j)
       IN IF l_keys = <<>> THEN IL_Splits(st, i, j, k + 1)
          ELSE IF r_keys = <<>> THEN IL_Splits(st, i, j, k + 1)
          ELSE IL_Splits(IL_Pairs(st, i, j, k, l_keys, r_keys, 1, 1), i, j, k + 1)

RECURSIVE IL_Starts(_, _, _, _)
IL_Starts(st, n, length, i) ==
  IF i > n - length THEN st
  ELSE LET j   == i + length
           st1 == [st EXCEPT !.table = SetCell(@, <<i, j>>, <<<<"", StrMarker("")>>>>)]
           st2 == IL_Splits(st1, i, j, i + 1)
           st3 == [st2 EXCEPT !.table = SetCell(@, <<i, j>>, Pop(st2.table[<<i, j>>], ""))]
       IN IL_Starts(st3, n, length, i + 1)

RECURSIVE IL_Lengths(_, _, _)
IL_Lengths(st, n, length) ==
  IF length > n THEN st
  ELSE IL_Lengths(IL_Starts(st, n, length, 0), n, length + 1)

\* The record [table, rhs, ret]: ret is the returned bool, or "KeyError" when
\* table[(0, n)] does not exist.
is_in_language(rhs, toks) ==
  LET n   == Len(toks)
      st0 == [table |-> [s \in LeafSpans(n) |-> <<>>], rhs |-> rhs]
      st  == IL_Lengths(IL_Leaves(st0, toks, 0), n, 2)
  IN [table |-> st.table, rhs |-> st.rhs,
      ret   |-> IF <<0, n>> \in DOMAIN st.table
                THEN (IF Len(st.table[<<0, n>>]) > 0 THEN "True" ELSE "False")
                ELSE "KeyError"]

(***************************************************************************)
(* cky.py: CkyParser.parse_with_backpointers.  st = [table, probs, rhs,    *)
(* cands, err]; cands records, in the order the loops meet them, every     *)
(* candidate (span, lhs, marker, log-probability) the code computes.       *)
(***************************************************************************)
Cand(i, j, lhs, key, value) ==
  [span |-> <<i, j>>, lhs |-> lhs, key |-> key, value |-> value]

NewValueMinus(lp, rp, rule) == lp + rp - Log2(rule.prob)

\* new_value = probs[(i,k)][l_key] + probs[(k,j)][r_key] + math.log(rule[2], 2)
NewValue(lp, rp, rule) == lp + rp + Log2(rule.prob)

BetterOrEqual(stored, new_value) == stored <= new_value

\* if probs[(i, j)][rule[0]] < new_value
Better(stored, new_value) == stored < new_value

RECURSIVE PW_LeafRules(_, _, _, _, _)
PW_LeafRules(st, toks, i, rules, x) ==
  IF x > Len(rules) THEN st
  ELSE LET span == <<i, i + 1>>
           lhs  == rules[x].lhs
           v    == Log2(rules[x].prob)
       IN PW_LeafRules(
            [st EXCEPT !.table = SetCell(@, span, Put(st.table[span], lhs, LeafMarker(toks, i))),
                       !.probs = SetCell(@, span, Put(st.probs[span], lhs, v)),
                       !.cands = Append(@, Cand(i, i + 1, lhs, LeafMarker(toks, i), v))],
            toks, i, rules, x + 1)

RECURSIVE PW_Leaves(_, _, _)
PW_Leaves(st, toks, i) ==
  IF i >= Len(toks) THEN st
  ELSE LET key == <<toks[i + 1]>>
           st1 == [st EXCEPT !.rhs = Touch(@, key)]
       IN PW_Leaves(PW_LeafRules(st1, toks, i, st1.rhs[key], 1), toks, i + 1)

\* The body of "for rule in rules" (lines 194-204) for one rule.
PW_Rule(st, i, j, k, l_key, r_key, rule) ==
  LET span == <<i, j>>
      lhs  == rule.lhs
      p1   == IF Has(st.probs[span], lhs) THEN st.probs[span]
              ELSE Put(st.probs[span], lhs, NegInf)
      lc   == st.probs[<<i, k>>]
      rc   == st.probs[<<k, j>>]
  IN IF ~(Has(lc, l_key) /\ Has(rc, r_key))
     THEN [st EXCEPT !.err = "KeyError"]
     ELSE LET new_key   == NewKey(rule, i, k, j)
              new_value == NewValue(Get(lc, l_key), Get(rc, r_key), rule)
              st1 == [st EXCEPT !.cands = Append(@, Cand(i, j, lhs, new_key, new_value))]
          IN IF Better(Get(p1, lhs), new_value)
             THEN [st1 EXCEPT !.table = SetCell(@, span, Put(st.table[span], lhs, new_key)),
                              !.probs = SetCell(@, span, Put(p1, lhs, new_value))]
             ELSE [st1 EXCEPT !.probs = SetCell(@, span, p1)]

RECURSIVE PW_Rules(_, _, _, _, _, _, _, _)
PW_Rules(st, i, j, k, l_key, r_key, rules, x) ==
  IF x > Len(rules) \/ st.err # "none" THEN st
  ELSE PW_Rules(PW_Rule(st, i, j, k, l_key, r_key, rules[x]),
                i, j, k, l_key, r_key, rules, x + 1)

RECURSIVE PW_Pairs(_, _, _, _, _, _, _, _)
PW_Pairs(st, i, j, k, l_keys, r_keys, a, b) ==
  IF a > Len(l_keys) \/ st.err # "none" THEN st
  ELSE IF b > Len(r_keys) THEN PW_Pairs(st, i, j, k, l_keys, r_keys, a + 1, 1)
  ELSE LET key == <<l_keys[a], r_keys[b]>>
           st1 == [st EXCEPT !.rhs = Touch(@, key)]
       IN PW_Pairs(PW_Rules(st1, i, j, k, l_keys[a], r_keys[b], st1.rhs[key], 1),
                   i, j, k, l_keys, r_keys, a, b + 1)

RECURSIVE PW_Splits(_, _, _, _)
PW_Splits(st, i, j, k) ==
  IF k >= j \/ st.err # "none" THEN st
  ELSE LET l_keys == LKeys(st.table, i, k)
           r_keys == RKeys(st.table, k, j)
       IN IF l_keys = <<>> THEN PW_Splits(st, i, j, k + 1)
          ELSE IF r_keys = <<>> THEN PW_Splits(st, i, j, k + 1)
          ELSE PW_Splits(PW_Pairs(st, i, j, k, l_keys, r_keys, 1, 1), i, j, k + 1)

RECURSIVE PW_Starts(_, _, _, _)
PW_Starts(st, n, length, i) ==
  IF i > n - length \/ st.err # "none" THEN st
  ELSE LET j   == i + length
           st1 == [st EXCEPT !.table = SetCell(@, <<i, j>>, <<<<"", StrMarker("")>>>>),
                             !.probs = SetCell(@, <<i, j>>, <<<<"", NegInf>>>>)]
           st2 == PW_Splits(st1, i, j, i + 1)
           st3 == [st2 EXCEPT !.table = SetCell(@, <<i, j>>, Pop(st2.table[<<i, j>>], "")),
                              !.probs = SetCell(@, <<i, j>>, Pop(st2.probs[<<i, j>>], ""))]
       IN IF st2.err # "none" THEN st2 ELSE PW_Starts(st3, n, length, i + 1)

RECURSIVE PW_Lengths(_, _, _)
PW_Lengths(st, n, length) ==
  IF length > n \/ st.err # "none" THEN st
  ELSE PW_Lengths(PW_Starts(st, n, length, 0), n, length + 1)

\* The record [table, probs, rhs, cands, ret]: ret is "ok" when the pair
\* (table, probs) is returned and "KeyError" when a probs lookup raises.
parse_with_backpointers(rhs, toks) ==
  LET n   == Len(toks)
      st0 == [table |-> [s \in LeafSpans(n) |-> <<>>],
              probs |-> [s \in LeafSpans(n) |-> <<>>],
              rhs |-> rhs, cands |-> <<>>, err |-> "none"]
      st  == PW_Lengths(PW_Leaves(st0, toks, 0), n, 2)
  IN [table |-> st.table, probs |-> st.probs, rhs |-> st.rhs, cands |-> st.cands,
      ret   |-> IF st.err = "none" THEN "ok" ELSE st.err]

(***************************************************************************)
(* cky.py: get_tree.  A tree is <<nt, token>> or <<nt, left, right>>.      *)
(* chart[(i, j)][nt] on a missing entry raises KeyError; Python ends a     *)
(* recursion deeper than its recursion limit with RecursionError.  Either  *)
(* exception passes through every enclosing call.                          *)
(***************************************************************************)
RecursionLimit == 6

IsException(t) == t \in {<<"KeyError">>, <<"RecursionError">>}

RECURSIVE util(_, _, _, _, _)
util(chart, i, j, nt, depth) ==
  IF depth > RecursionLimit THEN <<"RecursionError">>
  ELSE IF ~(<<i, j>> \in DOMAIN chart /\ Has(chart[<<i, j>>], nt)) THEN <<"KeyError">>
  ELSE LET curr == Get(chart[<<i, j>>], nt) IN
       IF curr[1] = "str" THEN <<nt, curr[2]>>
       ELSE LET left  == curr[2]
                right == curr[3]
                lt    == util(chart, left[2], left[3], left[1], depth + 1)
            IN IF IsException(lt) THEN lt
               ELSE LET rt == util(chart, right[2], right[3], right[1], depth + 1)
                    IN IF IsException(rt) THEN rt ELSE <<nt, lt, rt>>

get_tree(chart, i, j, nt) == util(chart, i, j, nt, 1)

(***************************************************************************)
(* Initial states: a parser constructed on a grammar read from a file that *)
(* holds any selection of the rule lines, in the order of RuleList or in   *)
(* the reverse order, followed by the start-symbol line.                   *)
(***************************************************************************)
RECURSIVE Select(_, _, _)
Select(seq, I, x) ==
  IF x > Len(seq) THEN <<>>
  ELSE (IF x \in I THEN <<seq[x]>> ELSE <<>>) \o Select(seq, I, x + 1)

Reverse(seq) == [x \in 1..Len(seq) |-> seq[Len(seq) + 1 - x]]

RuleSeqs ==
  LET subs == {Select(RuleList, I, 1) : I \in SUBSET (1..Len(RuleList))}
  IN subs \cup {Reverse(q) : q \in subs}

TokenSeqs == UNION {[1..m -> Terminals] : m \in 0..MaxLen}

GrammarFile(rules, s) == [x \in 1..Len(rules) |-> RuleLine(rules[x])] \o <<StartLine(s)>>

NoTable == [s \in {} |-> <<>>]

Init ==
  \E rules \in RuleSeqs :
    LET g == PcfgInit(GrammarFile(rules, "S")) IN
      /\ rhs_to_rules = g.rhs
      /\ lhs_to_rules = g.lhs
      /\ startsymbol = g.start
      /\ call = "idle"
      /\ tokens = <<>>
      /\ result = "none"
      /\ table = NoTable
      /\ probs = NoTable
      /\ cands = <<>>
      /\ root = <<>>
      /\ tree = <<>>

\* parser.is_in_language(toks)
IsInLanguage(toks) ==
  LET r == is_in_language(rhs_to_rules, toks) IN
    /\ call = "idle"
    /\ rhs_to_rules' = r.rhs
    /\ call' = "is_in_language"
    /\ tokens' = toks
    /\ result' = r.ret
    /\ table' = r.table
    /\ UNCHANGED <<lhs_to_rules, startsymbol, probs, cands, root, tree>>

\* table, probs = parser.parse_with_backpointers(toks)
ParseWithBackpointers(toks) ==
  LET r == parse_with_backpointers(rhs_to_rules, toks) IN
    /\ call = "idle"
    /\ rhs_to_rules' = r.rhs
    /\ call' = "parse_with_backpointers"
    /\ tokens' = toks
    /\ result' = r.ret
    /\ table' = r.table
    /\ probs' = r.probs
    /\ cands' = r.cands
    /\ UNCHANGED <<lhs_to_rules, startsymbol, root, tree>>

\* get_tree(table, i, j, nt) on the chart the last parse returned
GetTree(i, j, nt) ==
  /\ call = "parse_with_backpointers"
  /\ result = "ok"
  /\ i < j /\ j <= Len(tokens)
  /\ root' = <<i, j, nt>>
  /\ tree' = get_tree(table, i, j, nt)
  /\ UNCHANGED <<rhs_to_rules, lhs_to_rules, startsymbol,
                 call, tokens, result, table, probs, cands>>

\* The caller is done with what the last call returned; the parser and its
\* grammar stay as the call left them.
Discard ==
  /\ call # "idle"
  /\ call' = "idle"
  /\ tokens' = <<>>
  /\ result' = "none"
  /\ table' = NoTable
  /\ probs' = NoTable
  /\ cands' = <<>>
  /\ root' = <<>>
  /\ tree' = <<>>
  /\ UNCHANGED <<rhs_to_rules, lhs_to_rules, startsymbol>>

Next ==
  \/ \E toks \in TokenSeqs : IsInLanguage(toks)
  \/ \E toks \in TokenSeqs : ParseWithBackpointers(toks)
  \/ \E i \in 0..MaxLen, j \in 1..MaxLen, nt \in Nonterminals : GetTree(i, j, nt)
  \/ Discard

Spec == Init /\ [][Next]_vars

(***************************************************************************)
(* Properties.                                                             *)
(***************************************************************************)
Spans(n) == {sp \in (0..n) \X (0..n) : sp[1] < sp[2]}

KeySet(d) == {d[x][1] : x \in 1..Len(d)}

Parsed == call = "parse_with_backpointers" /\ result = "ok"

Membership == call = "is_in_language"

\* The grammar's derivation relation, read off the rules by left-hand side:
\* nt derives tokens[i..j).
RulesOf(nt) == IF nt \in DOMAIN lhs_to_rules THEN lhs_to_rules[nt] ELSE <<>>

RECURSIVE Derives(_, _, _)
Derives(nt, i, j) ==
  \E x \in 1..Len(RulesOf(nt)) :
    LET rule == RulesOf(nt)[x] IN
      IF Len(rule.rhs) = 1
      THEN j = i + 1 /\ rule.rhs[1] = tokens[i + 1]
      ELSE \E k \in (i + 1)..(j - 1) :
             Derives(rule.rhs[1], i, k) /\ Derives(rule.rhs[2], k, j)

\* C1: for a sentence of length n >= 1, is_in_language returns True exactly
\* when the start symbol derives the whole sentence.
C1_MembershipIffStartDerives ==
  (Membership /\ Len(tokens) >= 1)
    => (result = "True" <=> Derives(startsymbol, 0, Len(tokens)))

ChartHasStart(chart, n) ==
  <<0, n>> \in DOMAIN chart /\ Has(chart[<<0, n>>], startsymbol)

\* C2: is_in_language(T) is True exactly when the chart of
\* parse_with_backpointers(T) has the start symbol in the cell (0, len(T)).
C2_MembershipIffChartHasStart ==
  /\ Membership =>
       (result = "True"
          <=> ChartHasStart(parse_with_backpointers(rhs_to_rules, tokens).table,
                            Len(tokens)))
  /\ Parsed =>
       (is_in_language(rhs_to_rules, tokens).ret = "True"
          <=> ChartHasStart(table, Len(tokens)))

\* C3: is_in_language on the empty sentence returns False.
C3_EmptySentenceIsFalse ==
  (Membership /\ tokens = <<>>) => result = "False"

\* C4: after a parse, the stored log-probability of every (span, lhs) is at
\* least the log-probability of every candidate computed for it, at leaf
\* cells and at wider cells.
C4_StoredAtLeastEveryCandidate ==
  Parsed =>
    \A x \in 1..Len(cands) :
      /\ Has(probs[cands[x].span], cands[x].lhs)
      /\ Get(probs[cands[x].span], cands[x].lhs) >= cands[x].value

RECURSIVE TreeCovers(_, _, _)
TreeCovers(t, i, j) ==
  IF Len(t) = 2
  THEN j = i + 1 /\ t[2] = tokens[i + 1]
  ELSE /\ Len(t) = 3
       /\ \E k \in (i + 1)..(j - 1) : TreeCovers(t[2], i, k) /\ TreeCovers(t[3], k, j)

RootInChart == Has(table[<<root[1], root[2]>>], root[3])

\* C5: the tree get_tree returns for an entry of the chart is rooted in the
\* requested nonterminal, every internal node has two children whose spans
\* split the node's span at some k strictly inside it, every leaf carries the
\* token at its position, and the recursion ends without an exception.
C5_TreeValid ==
  (Parsed /\ root # <<>> /\ RootInChart)
    => /\ ~IsException(tree)
       /\ tree[1] = root[3]
       /\ TreeCovers(tree, root[1], root[2])

RECURSIVE Height(_)
Height(t) ==
  IF Len(t) = 3
  THEN 1 + (IF Height(t[2]) >= Height(t[3]) THEN Height(t[2]) ELSE Height(t[3]))
  ELSE 1

\* A tree of height 3 extracted for the whole of a three-token sentence that
\* holds two different tokens.
C5_Witness ==
  /\ Parsed /\ root = <<0, 3, "S">> /\ RootInChart
  /\ tokens = <<"b", "a", "a">>
  /\ ~IsException(tree) /\ Height(tree) = 3

\* C6: no call changes the grammar's indices or its start symbol.
C6_GrammarReadOnly ==
  [][/\ rhs_to_rules' = rhs_to_rules
     /\ lhs_to_rules' = lhs_to_rules
     /\ startsymbol' = startsymbol]_vars

AllRules == UNION {{rhs_to_rules[key][x] : x \in 1..Len(rhs_to_rules[key])} :
                    key \in DOMAIN rhs_to_rules}

ProbsInUnitInterval == \A rule \in AllRules : 0 < rule.prob[1] /\ rule.prob[1] <= rule.prob[2]

\* C7: when every rule probability lies in (0, 1], every log-probability in
\* the returned probability table is <= 0.
C7_LogProbsNonPositive ==
  (Parsed /\ ProbsInUnitInterval)
    => \A sp \in DOMAIN probs : \A x \in 1..Len(probs[sp]) : probs[sp][x][2] <= 0

\* A three-token parse under valid probabilities whose top cell holds S.
C7_Witness ==
  /\ Parsed /\ ProbsInUnitInterval /\ Len(tokens) = 3
  /\ Has(probs[<<0, 3>>], "S") /\ Get(probs[<<0, 3>>], "S") < -2

CandIdx(sp, lhs) == {x \in 1..Len(cands) : cands[x].span = sp /\ cands[x].lhs = lhs}

MaxValue(I) == CHOOSE v \in {cands[x].value : x \in I} : \A y \in I : cands[y].value <= v

FirstMax(I) == CHOOSE x \in I : /\ cands[x].value = MaxValue(I)
                                /\ \A y \in I : cands[y].value = MaxValue(I) => x <= y

\* C8: at a cell of width >= 2 the stored backpointer of each nonterminal is
\* the first candidate, in the order the loops compute them, that attains the
\* maximum log-probability among that nonterminal's candidates for the cell,
\* and the stored log-probability is that maximum.
C8_FirstMaximumKept ==
  Parsed =>
    \A sp \in DOMAIN table :
      sp[2] - sp[1] >= 2 =>
        \A e \in 1..Len(table[sp]) :
          LET lhs == table[sp][e][1]
              I   == CandIdx(sp, lhs)
          IN /\ I # {}
             /\ table[sp][e][2] = cands[FirstMax(I)].key
             /\ Get(probs[sp], lhs) = MaxValue(I)

\* A cell where two different derivations tie at the maximum, reached after a
\* worse candidate had been stored first
C8_Witness ==
  /\ Parsed
  /\ \E sp \in DOMAIN table :
       /\ sp[2] - sp[1] >= 2
       /\ \E e \in 1..Len(table[sp]) :
            LET I == CandIdx(sp, table[sp][e][1]) IN
              \E x \in I, y \in I, z \in I :
                /\ z < x /\ x < y
                /\ cands[z].value < MaxValue(I)
                /\ cands[x].value = MaxValue(I)
                /\ cands[y].value = MaxValue(I)
                /\ cands[x].key # cands[y].key
                /\ table[sp][e][2] = cands[x].key

Uncovered(p) == RulesFor(rhs_to_rules, <<tokens[p + 1]>>) = <<>>

\* C9: when the token at position p matches no unary rule, every cell whose
\* span contains p is empty after construction, in both parsers, and
\* is_in_language returns False.
C9_UncoveredTokenEmptiesSpans ==
  (Membership \/ call = "parse_with_backpointers") =>
    \A p \in 0..(Len(tokens) - 1) :
      Uncovered(p) =>
        /\ result = (IF Membership THEN "False" ELSE "ok")
        /\ \A sp \in Spans(Len(tokens)) :
             (sp[1] <= p /\ p < sp[2]) =>
               /\ sp \in DOMAIN table /\ table[sp] = <<>>
               /\ Parsed => (sp \in DOMAIN probs /\ probs[sp] = <<>>)

\* The middle token of three is uncovered, both neighbours derive from S and
\* the grammar has a rule for the pair (S, S).
C9_Witness ==
  /\ Membership /\ Len(tokens) = 3 /\ result = "False"
  /\ Uncovered(1) /\ ~Uncovered(0) /\ ~Uncovered(2)
  /\ table[<<0, 1>>] # <<>> /\ table[<<2, 3>>] # <<>>
  /\ <<"S", "S">> \in DOMAIN rhs_to_rules /\ rhs_to_rules[<<"S", "S">>] # <<>>
  /\ Has(table[<<0, 1>>], "S") /\ Has(table[<<2, 3>>], "S")

\* C10: a parse of n >= 1 tokens returns (no probs lookup fails), the chart
\* and the probability table both hold exactly the spans 0 <= i < j <= n, each
\* cell holds the same nonterminals in both, and the dummy "" is in neither.
C10_ChartAndProbsSameKeys ==
  (call = "parse_with_backpointers" /\ Len(tokens) >= 1) =>
    /\ result = "ok"
    /\ DOMAIN table = Spans(Len(tokens))
    /\ DOMAIN probs = Spans(Len(tokens))
    /\ \A sp \in Spans(Len(tokens)) :
         /\ KeySet(table[sp]) = KeySet(probs[sp])
         /\ "" \notin KeySet(table[sp])
         /\ "" \notin KeySet(probs[sp])

\* A three-token parse with two nonterminals at a leaf and S at the top.
C10_Witness ==
  /\ Parsed /\ Len(tokens) = 3
  /\ KeySet(table[<<0, 3>>]) = {"S"}
  /\ KeySet(table[<<0, 1>>]) = {"S", "A"}
  /\ KeySet(probs[<<0, 1>>]) = {"S", "A"}

====
